---------------------------- MODULE Spec2Model ----------------------------
(***************************************************************************)
(* Model of the taiwan_id crate (src/src/lib.rs): is_valid, generate,      *)
(* generate_prefix, sum and code_map.                                      *)
(*                                                                         *)
(* A char is its Unicode scalar value, a &str / String is a sequence of    *)
(* chars.  str::len() is the UTF-8 byte length, chars() walks the scalar   *)
(* values.  The arrays [u8; 11] are functions over 0..10.  u8 and u16      *)
(* arithmetic keeps its width: every operation yields the wrapped value    *)
(* together with an overflow flag (a debug build panics on overflow, a     *)
(* release build wraps).                                                   *)
(***************************************************************************)
EXTENDS Integers, Sequences, FiniteSets, TLC

VARIABLES
    op,        \* the entry point called: "is_valid", "generate" or "generate_prefix"
    arg,       \* the argument it was called with (id or prefix)
    pc,        \* the function whose body runs next, or "returned" / "panicked"
    prefix,    \* the argument of the pending invocation of generate_prefix
    valid,     \* the bool is_valid returned
    out,       \* the String generate / generate_prefix returned
    a,         \* the local array a: [u8; 11] as the call left it
    sums,      \* the values sum(&a) returned during the call, in order
    ovf,       \* TRUE when an arithmetic operation of the call overflowed
    pending,   \* harness: outcomes of the random source not yet tried
    seen,      \* harness: leading letters generate() has returned
    hist       \* harness: how many raw bytes produced each digit

vars == <<op, arg, pc, prefix, valid, out, a, sums, ovf, pending, seen, hist>>

---------------------------------------------------------------------------
(* Bounds of the model *)

\* Width of the window of consecutive digit positions that range over all of
\* 0..9 in the well-formed ids and prefixes given to the entry points.
MaxVar == 1

\* The raw bytes thread_rng yields for a person digit are 0..MaxRaw and U8Max.
MaxRaw == 0

---------------------------------------------------------------------------
(* Machine integers *)

U8Max == 255
U16Max == 65535

\* `x as u8`: truncation to the low eight bits
AsU8(x) == x % (U8Max + 1)

\* u8 - u8
SubU8(x, y) == [val |-> (x - y + U8Max + 1) % (U8Max + 1), ovf |-> x < y]

\* u8 * u8
MulU8(x, y) == [val |-> (x * y) % (U8Max + 1), ovf |-> x * y > U8Max]

\* u16 + u16
AddU16(x, y) == [val |-> (x + y) % (U16Max + 1), ovf |-> x + y > U16Max]

---------------------------------------------------------------------------
(* Characters and strings *)

CharA == 65
CharZ == 90
Char0 == 48
Char9 == 57

\* char::len_utf8
Utf8Len(c) == IF c < 128 THEN 1 ELSE IF c < 2048 THEN 2 ELSE IF c < 65536 THEN 3 ELSE 4

\* str::len(): the length in bytes
RECURSIVE len(_)
len(s) == IF s = <<>> THEN 0 ELSE Utf8Len(Head(s)) + len(Tail(s))

\* the pattern 'A'...'Z'
IsUpper(c) == c >= CharA /\ c <= CharZ

\* the pattern '0'...'9'
IsDigitNoUpper(c) == c >= Char0
IsDigit(c) == c >= Char0 /\ c <= Char9

\* Display of an unsigned integer (u8::to_string, "{}" of an i32 >= 0)
RECURSIVE to_string(_)
to_string(n) == IF n < 10 THEN <<Char0 + n>> ELSE to_string(n \div 10) \o <<Char0 + (n % 10)>>

---------------------------------------------------------------------------
(* code_map and sum *)

CODE_MAP_Alphabetical ==
    << <<1, 0>>, <<1, 1>>, <<1, 2>>, <<1, 3>>, <<1, 4>>, <<1, 5>>, <<1, 6>>,
       <<1, 7>>, <<1, 8>>, <<1, 9>>, <<2, 0>>, <<2, 1>>, <<2, 2>>, <<2, 3>>,
       <<2, 4>>, <<2, 5>>, <<2, 6>>, <<2, 7>>, <<2, 8>>, <<2, 9>>, <<3, 0>>,
       <<3, 1>>, <<3, 2>>, <<3, 3>>, <<3, 4>>, <<3, 5>> >>

\* static CODE_MAP: [[u8; 2]; 26]; entry k of the array is CODE_MAP[k + 1]
CODE_MAP ==
    << <<1, 0>>, <<1, 1>>, <<1, 2>>, <<1, 3>>, <<1, 4>>, <<1, 5>>, <<1, 6>>,
       <<1, 7>>, <<3, 4>>, <<1, 8>>, <<1, 9>>, <<2, 0>>, <<2, 1>>, <<2, 2>>,
       <<3, 5>>, <<2, 3>>, <<2, 4>>, <<2, 5>>, <<2, 6>>, <<2, 7>>, <<2, 8>>,
       <<2, 9>>, <<3, 2>>, <<3, 0>>, <<3, 1>>, <<3, 3>> >>

\* fn code_map(c: char) -> [u8; 2]; panic: the index is out of bounds
code_map(c) ==
    LET d == SubU8(AsU8(c), AsU8(CharA))
    IN  IF d.val + 1 \in DOMAIN CODE_MAP
        THEN [panic |-> FALSE, ovf |-> d.ovf, pair |-> CODE_MAP[d.val + 1]]
        ELSE [panic |-> TRUE, ovf |-> d.ovf, pair |-> <<0, 0>>]

MULTIPLIERS_Descending == <<1, 9, 8, 7, 6, 5, 4, 3, 2, 1, 0>>

\* static MULTIPLIERS: [u8; 11]; entry k of the array is MULTIPLIERS[k + 1]
MULTIPLIERS == <<1, 9, 8, 7, 6, 5, 4, 3, 2, 1, 1>>

\* One step of the fold of sum: acc + (MULTIPLIERS[index] * value) as u16
RECURSIVE sum_fold(_, _, _)
sum_fold(ary, index, acc) ==
    IF index \notin DOMAIN ary
    THEN acc
    ELSE LET prod == MulU8(MULTIPLIERS[index + 1], ary[index])
             next == AddU16(acc.val, prod.val)
         IN  sum_fold(ary, index + 1,
                      [val |-> next.val, ovf |-> acc.ovf \/ prod.ovf \/ next.ovf])

\* fn sum(ary: &[u8]) -> u16
sum(ary) == sum_fold(ary, 0, [val |-> 0, ovf |-> FALSE])

---------------------------------------------------------------------------
(* is_valid *)

\* let mut a: [u8; 11] = [0; 11]
ZeroArray == [i \in 0..10 |-> 0]

\* The loop `for c in iter` of is_valid.  kind is "done" when the iterator
\* is exhausted, "false" at the early return, "panic" when a[i] is out of
\* bounds.
RECURSIVE is_valid_loop(_, _, _, _)
is_valid_loop(iter, ary, i, o) ==
    IF iter = <<>>
    THEN [kind |-> "done", a |-> ary, ovf |-> o]
    ELSE LET c == Head(iter)
         IN  IF IsDigit(c)
             THEN IF i \notin DOMAIN ary
                  THEN [kind |-> "panic", a |-> ary, ovf |-> o]
                  ELSE LET d == SubU8(AsU8(c), AsU8(Char0))
                       IN  is_valid_loop(Tail(iter), [ary EXCEPT ![i] = d.val],
                                         i + 1, o \/ d.ovf)
             ELSE [kind |-> "false", a |-> ary, ovf |-> o]

\* The length test of is_valid: id.len() != 10
is_valid_len_TooLongOnly(id) == len(id) > 10
is_valid_len(id) == len(id) # 10

\* What is_valid hands back to its caller
IsValidResult(st, v, ary, ss, o) ==
    [status |-> st, valid |-> v, a |-> ary, sums |-> ss, ovf |-> o]

\* sum(&a) % 10 == 0 (line 33); s is the value of sum(&a)
is_valid_sum(loop, s) ==
    IsValidResult("returned", s.val % 10 = 0, loop.a, <<s.val>>, loop.ovf \/ s.ovf)

\* The outcome of the digit loop (lines 24-33)
is_valid_digits(loop) ==
    IF loop.kind = "panic" THEN IsValidResult("panicked", FALSE, loop.a, <<>>, loop.ovf)
    ELSE IF loop.kind = "false" THEN IsValidResult("returned", FALSE, loop.a, <<>>, loop.ovf)
    ELSE is_valid_sum(loop, sum(loop.a))

\* The letter's pair goes to a[0], a[1] (lines 17-19); pair is the value of
\* code_map(first_letter), iter the characters after the first
is_valid_pair(pair, iter) ==
    IF pair.panic THEN IsValidResult("panicked", FALSE, ZeroArray, <<>>, pair.ovf)
    ELSE is_valid_digits(is_valid_loop(
             iter, [ZeroArray EXCEPT ![0] = pair.pair[1], ![1] = pair.pair[2]], 2, pair.ovf))

\* pub fn is_valid(id: &str) -> bool
is_valid(id) ==
    IF is_valid_len(id) THEN IsValidResult("returned", FALSE, ZeroArray, <<>>, FALSE)
    ELSE IF id = <<>>
    THEN IsValidResult("panicked", FALSE, ZeroArray, <<>>, FALSE)  \* iter.next().unwrap()
    ELSE IF ~IsUpper(Head(id)) THEN IsValidResult("returned", FALSE, ZeroArray, <<>>, FALSE)
    ELSE is_valid_pair(code_map(Head(id)), Tail(id))

---------------------------------------------------------------------------
(* generate_prefix *)

\* rng.gen_range(low, high): the half-open range [low, high)
GenRangeInclusive(low, high) == low..high
GenRange(low, high) == low..(high - 1)

\* The loop `for i in prefix[1..].chars()` of generate_prefix.
RECURSIVE prefix_loop(_, _, _, _)
prefix_loop(iter, ary, a_index, o) ==
    IF iter = <<>>
    THEN [panic |-> FALSE, a |-> ary, a_index |-> a_index, ovf |-> o]
    ELSE LET i == Head(iter)
         IN  IF ~IsDigit(i) \/ a_index \notin DOMAIN ary
             THEN [panic |-> TRUE, a |-> ary, a_index |-> a_index, ovf |-> o]
             ELSE LET d == SubU8(AsU8(i), AsU8(Char0))
                  IN  prefix_loop(Tail(iter), [ary EXCEPT ![a_index] = d.val],
                                  a_index + 1, o \/ d.ovf)

HeadPanic == [panic |-> TRUE, prefix |-> <<>>, a |-> ZeroArray, a_index |-> 0, ovf |-> FALSE]

\* The outcome of the prefix loop (lines 88-97): a bad digit, a[a_index] or
\* a[a_index..len] out of bounds panic
generate_prefix_digits(p, loop) ==
    IF loop.panic \/ loop.a_index > 10 THEN HeadPanic
    ELSE [panic |-> FALSE, prefix |-> p, a |-> loop.a, a_index |-> loop.a_index,
          ovf |-> loop.ovf]

\* Lines 85-95; pair is the value of code_map(first_letter).  prefix[1..]
\* panics when byte 1 is not a char boundary.
generate_prefix_pair(p, pair) ==
    IF pair.panic \/ Utf8Len(Head(p)) # 1 THEN HeadPanic
    ELSE generate_prefix_digits(p, prefix_loop(
             Tail(p), [ZeroArray EXCEPT ![0] = pair.pair[1], ![1] = pair.pair[2]], 2,
             pair.ovf))

\* generate_prefix with a prefix of two bytes or more, up to the end of the
\* prefix loop (lines 60-62 and 79-95)
generate_prefix_head(p) ==
    IF len(p) > 9 THEN HeadPanic
    ELSE IF ~IsUpper(Head(p)) THEN HeadPanic
    ELSE generate_prefix_pair(p, code_map(Head(p)))

\* format!("{}{}", letter as char, cat) and format!("{}{}", prefix, cat)
format(p, cat) == p \o to_string(cat)

\* rng.gen::<u8>() % 10
gen_digit_Raw(raw) == raw
gen_digit(raw) == raw % 10

\* (10 - (sum(&a) % 10) as u8) % 10
check_digit_NoMod(total) == SubU8(10, AsU8(total % 10))
check_digit_NoComplement(total) == [val |-> AsU8(total % 10), ovf |-> FALSE]
check_digit(total) ==
    LET d == SubU8(10, AsU8(total % 10))
    IN  [val |-> d.val % 10, ovf |-> d.ovf]

\* a[from..].iter().fold(s, |s, i| s + &i.to_string())
RECURSIVE fold_digits(_, _, _)
fold_digits(s, ary, from) ==
    IF from \notin DOMAIN ary THEN s
    ELSE fold_digits(s \o to_string(ary[from]), ary, from + 1)

\* What generate_prefix hands back to its caller
GenerateResult(st, o, ary, ss, f) ==
    [status |-> st, out |-> o, a |-> ary, sums |-> ss, ovf |-> f]

\* Lines 101-103; a4 is a with the check digit in place
generate_prefix_fold(h, a4, s, d) ==
    IF len(h.prefix) + 1 > 11
    THEN GenerateResult("panicked", <<>>, a4, <<s.val>>, h.ovf \/ s.ovf \/ d.ovf)
    ELSE GenerateResult("returned", fold_digits(h.prefix, a4, len(h.prefix) + 1), a4,
                        <<s.val>>, h.ovf \/ s.ovf \/ d.ovf)

\* Line 100; s is the value of sum(&a), d the check digit
generate_prefix_check(h, a3, s, d) ==
    generate_prefix_fold(h, [a3 EXCEPT ![10] = d.val], s, d)

\* Line 100; a3 is a after the random fill
generate_prefix_sum(h, a3, s) == generate_prefix_check(h, a3, s, check_digit(s.val))

\* generate_prefix from the random fill to the return (lines 96-103).
\* h is the result of generate_prefix_head, fill[i] the raw byte drawn for a[i].
generate_prefix_filled(h, a3) == generate_prefix_sum(h, a3, sum(a3))

generate_prefix_tail(h, fill) ==
    generate_prefix_filled(
        h, [i \in 0..10 |-> IF i >= h.a_index /\ i < 10 THEN gen_digit(fill[i]) ELSE h.a[i]])

---------------------------------------------------------------------------
(* The arguments the callers pass *)

Letters == CharA..CharZ
Digits == Char0..Char9

\* ' ', '/', ':', '@', '[', 'a', 'z', U+00E9 (2 bytes), U+0130 and U+0141
\* (2 bytes, low byte '0' and 'A'), U+4E00 and U+FF11 (3 bytes), U+1F600 (4 bytes)
OtherChars == {32, 47, 58, 64, 91, 97, 122, 233, 304, 321, 19968, 65297, 128512}

\* The digits of the id of the tests, "A123456789"
BaseDigits == <<1, 2, 3, 4, 5, 6, 7, 8, 9>>

\* Digit strings of length n: BaseDigits with a window of MaxVar consecutive
\* positions ranging over all digits.
DigitStrings(n) ==
    { [i \in 1..n |-> Char0 + (IF i >= w /\ i < w + MaxVar THEN v[i - w + 1] ELSE BaseDigits[i])] :
        w \in 1..(IF n > MaxVar THEN n - MaxVar + 1 ELSE 1), v \in [1..MaxVar -> 0..9] }

\* 'A', 'I', 'O', 'Z'
SampleLetters == {65, 73, 79, 90}

\* Every letter followed by nine digits
Ids == { <<l>> \o d : l \in Letters, d \in DigitStrings(9) }

Replace(s, i, c) == [s EXCEPT ![i] = c]

\* "A1234567899" of the tests, with the letter l
LongId(l) == <<l>> \o [k \in 1..9 |-> Char0 + BaseDigits[k]] \o <<Char9>>

\* The long id of a sample letter cut to 1..11 characters
Cuts == { SubSeq(LongId(l), 1, n) : l \in SampleLetters, n \in 1..11 }

\* Characters that break the shape rules at position k
BadChars(k) == OtherChars \union (IF k = 1 THEN {Char0, Char9} ELSE {CharA, CharZ})

\* A cut with one character replaced by a bad one
Mutations ==
    UNION { UNION { { Replace(s, k, c) : c \in BadChars(k) } : k \in 1..Len(s) } : s \in Cuts }

\* The ids of the tests and of the doc comment: "A123456789", "A1234567899",
\* "Z123456789", "A987654321" and 'A' followed by the numerals U+4E00 ... U+4E5D
TestIds ==
    { <<65, 49, 50, 51, 52, 53, 54, 55, 56, 57>>,
      <<65, 49, 50, 51, 52, 53, 54, 55, 56, 57, 57>>,
      <<90, 49, 50, 51, 52, 53, 54, 55, 56, 57>>,
      <<65, 57, 56, 55, 54, 53, 52, 51, 50, 49>>,
      <<65, 19968, 20108, 19977, 22235, 20116, 20845, 19975, 20843, 20061>> }

IdArgs == {<<>>} \union TestIds \union Ids \union Cuts \union Mutations

\* Every letter with eight digits: the prefixes that leave only the check
\* digit open
FullPrefixes == { <<l>> \o d : l \in Letters, d \in DigitStrings(8) }

\* The prefixes of the tests and of the doc comment: "A", "A1", "A2"
TestPrefixes == { <<65>>, <<65, 49>>, <<65, 50>> }

\* The prefixes given to generate_prefix; the empty prefix is the one
\* generate() passes.
PrefixArgs == TestPrefixes \union FullPrefixes \union Cuts \union Mutations

\* The raw bytes rng.gen::<u8>() yields
RawValues == (0..MaxRaw) \union {U8Max}

---------------------------------------------------------------------------
(* The state machine: one call of an entry point, from the call to its
   return or panic.  A recursive call of generate_prefix is a step. *)

NoResult ==
    /\ valid = FALSE
    /\ out = <<>>
    /\ a = ZeroArray
    /\ sums = <<>>
    /\ ovf = FALSE

NoHarness ==
    /\ pending = {}
    /\ seen = {}
    /\ hist = [d \in 0..9 |-> 0]

\* An entry point has been called and its body has not run yet
Init ==
    /\ \/ op = "is_valid" /\ arg \in IdArgs
       \/ op = "generate" /\ arg = <<>>
       \/ op = "generate_prefix" /\ arg \in PrefixArgs
    /\ pc = op
    /\ prefix = IF op = "generate_prefix" THEN arg ELSE <<>>
    /\ NoResult
    /\ NoHarness

\* What a call whose arithmetic overflowed can do: panic (debug build) or
\* go on with the wrapped values (release build).
Outcomes(r) == IF r.ovf THEN {[r EXCEPT !.status = "panicked"], r} ELSE {r}

\* is_valid(id), lines 9-34
IsValid ==
    /\ pc = "is_valid"
    /\ \E r \in Outcomes(is_valid(arg)) :
          /\ pc' = r.status
          /\ valid' = (r.status = "returned" /\ r.valid)
          /\ a' = r.a
          /\ sums' = r.sums
          /\ ovf' = r.ovf
    /\ UNCHANGED <<op, arg, prefix, out, pending, seen, hist>>

\* generate(), line 39: generate_prefix("")
Generate ==
    /\ pc = "generate"
    /\ pc' = "generate_prefix"
    /\ prefix' = <<>>
    /\ UNCHANGED <<op, arg, valid, out, a, sums, ovf, pending, seen, hist>>

\* generate_prefix with an empty prefix, lines 67-73: the recursive call
\* with a letter of letters and a category digit
EmptyPrefix(letters) ==
    /\ pc = "generate_prefix"
    /\ len(prefix) <= 9
    /\ prefix = <<>>
    /\ \E letter \in letters, cat \in GenRange(1, 3) :
          prefix' = format(<<letter>>, cat)
    /\ UNCHANGED <<op, arg, pc, valid, out, a, sums, ovf>>

GeneratePrefixEmpty ==
    /\ EmptyPrefix(GenRange(CharA, CharZ))
    /\ UNCHANGED <<pending, seen, hist>>

\* generate_prefix with a prefix of one byte, lines 75-77: the recursive
\* call with a category digit appended
GeneratePrefixLetter ==
    /\ pc = "generate_prefix"
    /\ len(prefix) <= 9
    /\ prefix # <<>>
    /\ len(prefix) = 1
    /\ \E cat \in GenRange(1, 3) :
          prefix' = format(prefix, cat)
    /\ UNCHANGED <<op, arg, pc, valid, out, a, sums, ovf, pending, seen, hist>>

\* generate_prefix after its head h: the panic of the head, or the random
\* fill of a[a_index..len] with bytes of raws and the return
FillFrom(h, raws) ==
    IF h.panic
    THEN /\ pc' = "panicked"
         /\ out' = <<>>
         /\ a' = h.a
         /\ sums' = <<>>
         /\ ovf' = h.ovf
    ELSE \E fill \in [h.a_index..9 -> raws] :
           \E r \in Outcomes(generate_prefix_tail(h, fill)) :
              /\ pc' = r.status
              /\ out' = IF r.status = "returned" THEN r.out ELSE <<>>
              /\ a' = r.a
              /\ sums' = r.sums
              /\ ovf' = r.ovf

\* generate_prefix in every other case: the panic of line 61, or lines
\* 79-103 with the person digits drawn from raws
GeneralPrefix(raws) ==
    /\ pc = "generate_prefix"
    /\ len(prefix) > 9 \/ (prefix # <<>> /\ len(prefix) # 1)
    /\ FillFrom(generate_prefix_head(prefix), raws)
    /\ UNCHANGED <<op, arg, prefix, valid>>

GeneratePrefix ==
    /\ GeneralPrefix(RawValues)
    /\ UNCHANGED <<pending, seen, hist>>

Next == IsValid \/ Generate \/ GeneratePrefixEmpty \/ GeneratePrefixLetter \/ GeneratePrefix

Spec == Init /\ [][Next]_vars

---------------------------------------------------------------------------
(* Harnesses that walk through the outcomes of one random draw *)

Min(S) == CHOOSE x \in S : \A y \in S : x <= y

\* generate() once for every outcome of gen_range(b'A', b'Z'), lowest first
InitLetter ==
    /\ op = "generate"
    /\ arg = <<>>
    /\ pc = "generate"
    /\ prefix = <<>>
    /\ NoResult
    /\ pending = GenRange(CharA, CharZ)
    /\ seen = {}
    /\ hist = [d \in 0..9 |-> 0]

\* The letter draw of lines 67-73 yields the next outcome
DrawLetter ==
    /\ pending # {}
    /\ EmptyPrefix({Min(pending)})
    /\ pending' = pending \ {Min(pending)}
    /\ UNCHANGED <<seen, hist>>

\* The harness notes the leading letter of the id and calls generate() again
NoteLetter ==
    /\ pc \in {"returned", "panicked"}
    /\ seen' = IF pc = "returned" THEN seen \union {Head(out)} ELSE seen
    /\ pc' = "generate"
    /\ prefix' = <<>>
    /\ valid' = FALSE
    /\ out' = <<>>
    /\ a' = ZeroArray
    /\ sums' = <<>>
    /\ ovf' = FALSE
    /\ UNCHANGED <<op, arg, pending, hist>>

NextLetter == Generate \/ DrawLetter \/ GeneratePrefix \/ NoteLetter

SpecLetter == InitLetter /\ [][NextLetter]_vars

\* generate_prefix("A1234567") once for every byte rng.gen::<u8>() can
\* yield for a[9], the one person digit this prefix leaves open, lowest first
InitDigit ==
    /\ op = "generate_prefix"
    /\ arg = SubSeq(LongId(CharA), 1, 8)
    /\ pc = "generate_prefix"
    /\ prefix = arg
    /\ NoResult
    /\ pending = 0..U8Max
    /\ seen = {}
    /\ hist = [d \in 0..9 |-> 0]

\* rng.gen::<u8>() yields the next byte
DrawRaw ==
    /\ pending # {}
    /\ GeneralPrefix({Min(pending)})
    /\ pending' = pending \ {Min(pending)}
    /\ UNCHANGED <<seen, hist>>

\* The harness counts the digit of a[9] and calls generate_prefix again
NoteDigit ==
    /\ pc \in {"returned", "panicked"}
    /\ hist' = IF pc = "returned" THEN [hist EXCEPT ![a[9]] = @ + 1] ELSE hist
    /\ pc' = "generate_prefix"
    /\ valid' = FALSE
    /\ out' = <<>>
    /\ a' = ZeroArray
    /\ sums' = <<>>
    /\ ovf' = FALSE
    /\ UNCHANGED <<op, arg, prefix, pending, seen>>

NextDigit == DrawRaw \/ NoteDigit

SpecDigit == InitDigit /\ [][NextDigit]_vars

---------------------------------------------------------------------------
(* What the documentation states, in its own terms *)

\* The national code of each letter, 'A' first
NationalCode ==
    <<10, 11, 12, 13, 14, 15, 16, 17, 34, 18, 19, 20, 21, 22, 35, 23, 24, 25, 26,
      27, 28, 29, 32, 30, 31, 33>>

\* The weights of the eleven positions
Weights == <<1, 9, 8, 7, 6, 5, 4, 3, 2, 1, 1>>

\* One uppercase letter followed by nine decimal digits
WellFormed(s) ==
    /\ Len(s) = 10
    /\ s[1] \in Letters
    /\ \A i \in 2..10 : s[i] \in Digits

\* The shape rules of a prefix
ShapeOK(p) ==
    /\ Len(p) <= 9
    /\ Len(p) >= 1 => p[1] \in Letters
    /\ \A i \in 2..Len(p) : p[i] \in Digits

\* The 11-element expansion of a well-formed id, position k at index k + 1
Expansion(s) ==
    [i \in 1..11 |-> IF i = 1 THEN NationalCode[s[1] - CharA + 1] \div 10
                     ELSE IF i = 2 THEN NationalCode[s[1] - CharA + 1] % 10
                     ELSE s[i - 1] - Char0]

RECURSIVE WeightedSumTo(_, _)
WeightedSumTo(e, n) == IF n = 0 THEN 0 ELSE WeightedSumTo(e, n - 1) + e[n] * Weights[n]

WeightedSum(e) == WeightedSumTo(e, 11)

StartsWith(s, p) == Len(s) >= Len(p) /\ SubSeq(s, 1, Len(p)) = p

\* The call is over
Done == pc \in {"returned", "panicked"}

GenDone == Done /\ op \in {"generate", "generate_prefix"}

\* The array a as a sequence, position k at index k + 1
ArrayA == [i \in 1..11 |-> a[i - 1]]

\* is_valid returned true
Accepted(r) == r.status = "returned" /\ r.valid

---------------------------------------------------------------------------
(* Properties *)

\* C1: for every prefix of length 0 to 9 that keeps the shape rules and every
\* outcome of the random choices, generate_prefix returns a string that
\* starts with the prefix and that is_valid accepts.
C1_RoundTrip ==
    (GenDone /\ ShapeOK(arg)) =>
        /\ pc = "returned"
        /\ StartsWith(out, arg)
        /\ Accepted(is_valid(out))

\* generate_prefix("A2") has returned an id of ten characters
C1_Witness ==
    /\ op = "generate_prefix"
    /\ arg = <<65, 50>>
    /\ pc = "returned"
    /\ Len(out) = 10
    /\ SubSeq(out, 1, 2) = <<65, 50>>

\* C2: is_valid never panics, and returns false for every malformed string:
\* a character count other than 10, a first character that is no uppercase
\* letter, or a later character that is no decimal digit, whatever the byte
\* length is.
C2_RejectsMalformed ==
    (Done /\ op = "is_valid") =>
        /\ pc = "returned"
        /\ ~WellFormed(arg) => ~valid

\* is_valid has rejected a string of ten bytes that has not ten characters
C2_Witness ==
    /\ op = "is_valid"
    /\ len(arg) = 10
    /\ Len(arg) # 10
    /\ Head(arg) \in Letters
    /\ pc = "returned"
    /\ ~valid

\* C3: on a well-formed string is_valid returns true exactly when the
\* weighted sum of the expansion is divisible by 10, with any digit in the
\* category position; "A123456789" is valid, "Z123456789" and "A987654321"
\* are not.
C3_ChecksumDecides ==
    (Done /\ op = "is_valid" /\ WellFormed(arg)) =>
        /\ pc = "returned"
        /\ valid <=> (WeightedSum(Expansion(arg)) % 10 = 0)
        /\ arg = <<65, 49, 50, 51, 52, 53, 54, 55, 56, 57>> => valid
        /\ arg = <<90, 49, 50, 51, 52, 53, 54, 55, 56, 57>> => ~valid
        /\ arg = <<65, 57, 56, 55, 54, 53, 52, 51, 50, 49>> => ~valid

\* is_valid has accepted an id whose category digit is neither 1 nor 2
C3_Witness ==
    /\ op = "is_valid"
    /\ WellFormed(arg)
    /\ arg[2] \notin {49, 50}
    /\ pc = "returned"
    /\ valid

\* C4: generate_prefix panics, and returns no string, for every prefix that
\* breaks the caller contract: longer than 9, a first character that is no
\* uppercase letter, or a later character that is no decimal digit.
C4_PanicsOnBadPrefix ==
    (GenDone /\ ~ShapeOK(arg)) => (pc = "panicked" /\ out = <<>>)

\* generate_prefix("a"), a direct 1-character prefix, has panicked
C4_Witness ==
    /\ op = "generate_prefix"
    /\ arg = <<97>>
    /\ pc = "panicked"

\* C5: with an empty prefix every one of the 26 letters A-Z begins some
\* returned id: once generate() has run on each outcome of the letter draw,
\* the leading letters seen are all of A-Z.
C5_EveryLetterDrawn ==
    (pending = {} /\ pc = "generate") => seen = Letters

\* C6: with an empty or single-letter prefix the category digit of the
\* returned id is 1 or 2, both being outcomes of the draw; a single-letter
\* prefix keeps its letter, an empty prefix gets a letter as well.
C6_CategoryDigit ==
    (GenDone /\ Len(arg) <= 1 /\ ShapeOK(arg)) =>
        /\ pc = "returned"
        /\ out[2] \in {49, 50}
        /\ GenRange(1, 3) = {1, 2}
        /\ Len(arg) = 1 => out[1] = arg[1]
        /\ arg = <<>> => out[1] \in Letters

\* generate_prefix of the single letter 'Z' has returned an id "Z2..."
C6_Witness ==
    /\ op = "generate_prefix"
    /\ arg = <<90>>
    /\ pc = "returned"
    /\ out[1] = 90
    /\ out[2] = 50

\* C7: the check digit generate_prefix computes is (10 - (partial weighted
\* sum mod 10)) mod 10, lies in 0-9, makes the weighted sum of the whole
\* expansion of the returned id divisible by 10, and is the only digit in 0-9
\* that does.
C7_CheckDigit ==
    (GenDone /\ pc = "returned") =>
        /\ a[10] \in 0..9
        /\ a[10] = (10 - (WeightedSumTo(ArrayA, 10) % 10)) % 10
        /\ WeightedSum(ArrayA) % 10 = 0
        /\ \A x \in 0..9 : WeightedSum([ArrayA EXCEPT ![11] = x]) % 10 = 0 => x = a[10]
        /\ Len(out) = 10
        /\ ArrayA = Expansion(out)

\* generate_prefix has run on a full-length prefix whose partial sum is a
\* multiple of 10, so that the check digit is 0
C7_Witness ==
    /\ op = "generate_prefix"
    /\ Len(arg) = 9
    /\ pc = "returned"
    /\ sums # <<>>
    /\ Head(sums) % 10 = 0
    /\ a[10] = 0

\* The pair code_map returns is the two digits of the national code
CodeMapIsNational ==
    \A c \in Letters :
        /\ ~code_map(c).panic
        /\ code_map(c).pair = <<NationalCode[c - CharA + 1] \div 10,
                                NationalCode[c - CharA + 1] % 10>>

\* The 26 pairs are pairwise distinct and are the codes 10 to 35
CodeMapIsOneToOne ==
    /\ { code_map(c).pair[1] * 10 + code_map(c).pair[2] : c \in Letters } = 10..35
    /\ \A c \in Letters : \A e \in Letters : code_map(c).pair = code_map(e).pair => c = e

\* C8: code_map gives every letter the two digits of its national code, as
\* the first two positions of the array of every call show; the 26 codes are
\* pairwise distinct and are exactly 10 to 35.
C8_CodeMap ==
    (pc = "returned" /\ sums # <<>>) =>
        /\ a[0] * 10 + a[1] =
              NationalCode[(IF op = "is_valid" THEN arg[1] ELSE out[1]) - CharA + 1]
        /\ CodeMapIsNational
        /\ CodeMapIsOneToOne

\* is_valid has looked up 'I', whose code 34 is out of alphabetical order
C8_Witness ==
    /\ op = "is_valid"
    /\ WellFormed(arg)
    /\ arg[1] = 73
    /\ a[0] = 3
    /\ a[1] = 4
    /\ valid

\* C9: the mapping from the raw byte drawn for a person digit to the digit
\* sends equally many of the 256 bytes to each of the ten digits.
C9_DigitsUnbiased ==
    (pending = {} /\ pc = "generate_prefix") =>
        \A d \in 0..9 : \A e \in 0..9 : hist[d] = hist[e]

\* C10: no arithmetic of is_valid or generate_prefix overflows: the digit
\* conversions, the check-digit subtraction, every 8-bit product and the
\* 16-bit running total of sum stay in range, and sum returns the
\* mathematical weighted sum of the array it is given.
C10_NoOverflow ==
    /\ ~ovf
    /\ sums # <<>> =>
         LET e == IF op = "is_valid" THEN ArrayA ELSE [ArrayA EXCEPT ![11] = 0]
         IN  /\ Head(sums) = WeightedSum(e)
             /\ \A i \in 1..11 : e[i] \in 0..9 /\ Weights[i] * e[i] <= U8Max
             /\ WeightedSum(e) <= U16Max

\* sum has multiplied the weight 9 by the digit 9 in a call that returned
C10_Witness ==
    /\ pc = "returned"
    /\ sums # <<>>
    /\ a[1] = 9

===========================================================================
